---------------------------- MODULE Spec2Model ----------------------------
(***************************************************************************)
(* QgsBox3D (src/core/geometry/qgsbox3d.cpp): an axis-aligned 3D box made  *)
(* of a 2D rectangle (mBounds2d) and a z interval (mZmin, mZmax).          *)
(*                                                                         *)
(* The bounds are C++ doubles.  They are modelled by a small binary        *)
(* floating-point format with the same structure as IEEE-754 binary64:     *)
(* MantBits bits of precision, exponents 0..EMax, gradual underflow,       *)
(* round-to-nearest-even, overflow to infinity, and a NaN that is          *)
(* unordered.  The unit of the encoding is the value 1.0, which is also    *)
(* the smallest positive value of the format.                              *)
(***************************************************************************)
EXTENDS Integers, Sequences, FiniteSets, TLC

(***************************************************************************)
(* Bounds of the model.                                                    *)
(***************************************************************************)
MantBits == 3        \* bits of precision of the modelled double
EMax == 2            \* largest exponent of the modelled double
MaxSteps == 2        \* mutating calls made on one box after its construction
MaxPts == 3          \* points accumulated by combineWith after setMinimal

(***************************************************************************)
(* The double type.                                                        *)
(***************************************************************************)
Pow2(n) == IF n = 0 THEN 1 ELSE IF n = 1 THEN 2 ELSE IF n = 2 THEN 4
           ELSE IF n = 3 THEN 8 ELSE IF n = 4 THEN 16 ELSE IF n = 5 THEN 32
           ELSE IF n = 6 THEN 64 ELSE IF n = 7 THEN 128 ELSE 256

Abs(n) == IF n < 0 THEN -n ELSE n

\* std::numeric_limits<double>::max()
DBL_MAX == (Pow2(MantBits) - 1) * Pow2(EMax)

\* +infinity, -infinity and NaN are encoded outside the finite range
Inf == 4 * DBL_MAX
NegInf == -Inf
NaN == Inf + 1

\* the non-negative finite doubles: m * 2^e with m < 2^MantBits
FinitePos == {m * Pow2(e) : m \in 0..(Pow2(MantBits) - 1), e \in 0..EMax}

Finite == FinitePos \cup {-f : f \in FinitePos}

Double == Finite \cup {Inf, NegInf, NaN}

isnan(a) == a = NaN

isinf(a) == a = Inf \/ a = NegInf

\* the IEEE comparisons: every comparison with a NaN is false
Lt(a, b) == ~isnan(a) /\ ~isnan(b) /\ a < b

Le(a, b) == ~isnan(a) /\ ~isnan(b) /\ a <= b

Gt(a, b) == Lt(b, a)

Ge(a, b) == Le(b, a)

Eq(a, b) == ~isnan(a) /\ ~isnan(b) /\ a = b

\* the exponent of the binade of the rational a/d >= 0: the smallest e with
\* a/d < 2^MantBits * 2^e, and EMax beyond the finite range
Binade(a, d) ==
  IF \E e \in 0..EMax : a < Pow2(MantBits) * Pow2(e) * d
  THEN CHOOSE e \in 0..EMax :
         /\ a < Pow2(MantBits) * Pow2(e) * d
         /\ \A g \in 0..EMax : a < Pow2(MantBits) * Pow2(g) * d => e <= g
  ELSE EMax

\* round the rational n/d (d > 0) to the nearest double, ties to even:
\* the multiple k * ulp nearest to |n/d|, infinity once it passes DBL_MAX
RoundRat(n, d) ==
  LET a == Abs(n)
      ulp == Pow2(Binade(a, d))
      k == a \div (ulp * d)
      r == a - k * ulp * d
      up == 2 * r > ulp * d \/ (2 * r = ulp * d /\ k % 2 = 1)
      m == (IF up THEN k + 1 ELSE k) * ulp
      v == IF m > DBL_MAX THEN Inf ELSE m
  IN  IF n < 0 THEN -v ELSE v

Neg(a) == IF isnan(a) THEN NaN ELSE -a

Add(a, b) ==
  IF isnan(a) \/ isnan(b) THEN NaN
  ELSE IF isinf(a) /\ isinf(b) THEN (IF a = b THEN a ELSE NaN)
  ELSE IF isinf(a) THEN a
  ELSE IF isinf(b) THEN b
  ELSE RoundRat(a + b, 1)

Sub(a, b) == Add(a, Neg(b))

Mul(a, b) ==
  IF isnan(a) \/ isnan(b) THEN NaN
  ELSE IF isinf(a) \/ isinf(b)
       THEN (IF a = 0 \/ b = 0 THEN NaN
             ELSE IF (a > 0) = (b > 0) THEN Inf ELSE NegInf)
  ELSE RoundRat(a * b, 1)

\* x / 2
Half(a) == IF isnan(a) \/ isinf(a) THEN a ELSE RoundRat(a, 2)

\* std::min( a, b ) is ( b < a ) ? b : a
StdMin(a, b) == IF Lt(b, a) THEN b ELSE a

\* std::max( a, b ) is ( a < b ) ? b : a
StdMax(a, b) == IF Lt(a, b) THEN b ELSE a

\* qgsDoubleNear( a, b ) with its default epsilon 4 * DBL_EPSILON, where
\* DBL_EPSILON = 2^(1 - MantBits); two NaNs are near, a NaN and a number never
qgsDoubleNear(a, b) ==
  IF isnan(a) \/ isnan(b) THEN isnan(a) /\ isnan(b)
  ELSE LET diff == Sub(a, b)
       IN  IF isnan(diff) THEN FALSE
           ELSE IF isinf(diff) THEN FALSE
           ELSE Abs(diff) * Pow2(MantBits) <= 8


(***************************************************************************)
(* The 2D rectangle collaborator (QgsRectangle), reached through           *)
(* mBounds2d.  Its code is not part of this source tree; it is modelled    *)
(* from the specification: min/max per axis, set to the inverted extreme,  *)
(* normalize, intersect, intersects, contains, union, isEmpty.             *)
(***************************************************************************)
\* QgsRectangle( xmin, ymin, xmax, ymax, false ): stored as given
QgsRectangle(xmin, ymin, xmax, ymax) ==
  [mXmin |-> xmin, mYmin |-> ymin, mXmax |-> xmax, mYmax |-> ymax]

RectSetMinimal == QgsRectangle(DBL_MAX, DBL_MAX, -DBL_MAX, -DBL_MAX)

RectNormalize(r) ==
  QgsRectangle(IF Gt(r.mXmin, r.mXmax) THEN r.mXmax ELSE r.mXmin,
               IF Gt(r.mYmin, r.mYmax) THEN r.mYmax ELSE r.mYmin,
               IF Gt(r.mXmin, r.mXmax) THEN r.mXmin ELSE r.mXmax,
               IF Gt(r.mYmin, r.mYmax) THEN r.mYmin ELSE r.mYmax)

RectIntersect(r, o) ==
  QgsRectangle(StdMax(r.mXmin, o.mXmin), StdMax(r.mYmin, o.mYmin),
               StdMin(r.mXmax, o.mXmax), StdMin(r.mYmax, o.mYmax))

RectIntersects(r, o) ==
  /\ Le(StdMax(r.mXmin, o.mXmin), StdMin(r.mXmax, o.mXmax))
  /\ Le(StdMax(r.mYmin, o.mYmin), StdMin(r.mYmax, o.mYmax))

RectContains(r, o) ==
  /\ Ge(o.mXmin, r.mXmin) /\ Le(o.mXmax, r.mXmax)
  /\ Ge(o.mYmin, r.mYmin) /\ Le(o.mYmax, r.mYmax)

RectContainsXY(r, x, y) ==
  /\ Le(r.mXmin, x) /\ Le(x, r.mXmax)
  /\ Le(r.mYmin, y) /\ Le(y, r.mYmax)

RectCombineExtentWith(r, o) ==
  QgsRectangle(StdMin(r.mXmin, o.mXmin), StdMin(r.mYmin, o.mYmin),
               StdMax(r.mXmax, o.mXmax), StdMax(r.mYmax, o.mYmax))

RectCombineExtentWithXY(r, x, y) ==
  QgsRectangle(StdMin(r.mXmin, x), StdMin(r.mYmin, y),
               StdMax(r.mXmax, x), StdMax(r.mYmax, y))

RectIsEmpty(r) ==
  \/ Le(r.mXmax, r.mXmin) \/ Le(r.mYmax, r.mYmin)
  \/ qgsDoubleNear(r.mXmax, r.mXmin) \/ qgsDoubleNear(r.mYmax, r.mYmin)

RectEquals(r, o) ==
  /\ qgsDoubleNear(r.mXmin, o.mXmin) /\ qgsDoubleNear(r.mYmin, o.mYmin)
  /\ qgsDoubleNear(r.mXmax, o.mXmax) /\ qgsDoubleNear(r.mYmax, o.mYmax)

\* QgsPoint / QVector3D: three coordinates
Point(x, y, z) == [x |-> x, y |-> y, z |-> z]

\* QgsPoint::isEmpty(): the point carries no x or no y (an unset center)
PointIsEmpty(p) == isnan(p.x) \/ isnan(p.y)

(***************************************************************************)
(* QgsBox3D.                                                               *)
(***************************************************************************)
Box(r, zmin, zmax) == [mBounds2d |-> r, mZmin |-> zmin, mZmax |-> zmax]

xMinimum(b) == b.mBounds2d.mXmin
xMaximum(b) == b.mBounds2d.mXmax
yMinimum(b) == b.mBounds2d.mYmin
yMaximum(b) == b.mBounds2d.mYmax
zMinimum(b) == b.mZmin
zMaximum(b) == b.mZmax

\* mutant: mZmax is computed after mZmin was overwritten
normalizeLateMax(b) ==
  LET minTmp == StdMin(b.mZmin, b.mZmax)
  IN  Box(RectNormalize(b.mBounds2d), minTmp, StdMax(minTmp, minTmp))

normalize(b) ==
  LET minTmp == StdMin(b.mZmin, b.mZmax)
  IN  Box(RectNormalize(b.mBounds2d), minTmp, StdMax(b.mZmin, b.mZmax))

\* the constructor from six scalars
QgsBox3D(xmin, ymin, zmin, xmax, ymax, zmax, norm) ==
  LET b == Box(QgsRectangle(xmin, ymin, xmax, ymax), zmin, zmax)
  IN  IF norm THEN normalize(b) ELSE b

\* the constructor from two corner points
QgsBox3DFromPoints(p1, p2, norm) ==
  LET b == Box(QgsRectangle(p1.x, p1.y, p2.x, p2.y), p1.z, p2.z)
  IN  IF norm THEN normalize(b) ELSE b

\* the constructor from a rectangle and a z range
QgsBox3DFromRect(rect, zMin, zMax, norm) ==
  LET b == Box(rect, zMin, zMax)
  IN  IF norm THEN normalize(b) ELSE b

setXMinimum(b, x) == [b EXCEPT !.mBounds2d.mXmin = x]
setXMaximum(b, x) == [b EXCEPT !.mBounds2d.mXmax = x]
setYMinimum(b, y) == [b EXCEPT !.mBounds2d.mYmin = y]
setYMaximum(b, y) == [b EXCEPT !.mBounds2d.mYmax = y]
setZMinimum(b, z) == [b EXCEPT !.mZmin = z]
setZMaximum(b, z) == [b EXCEPT !.mZmax = z]

\* mutant: the sign of the z maximum is lost
setMinimalNoSign(b) == Box(RectSetMinimal, DBL_MAX, DBL_MAX)

setMinimal(b) == Box(RectSetMinimal, DBL_MAX, -DBL_MAX)

\* the value of the constructor's normalize parameter when intersect()
\* leaves it out: the result is not normalized
DefaultNormalize == FALSE

\* mutant: the result is built by a normalizing constructor
intersectNormalized(b, other) ==
  LET intersect2d == RectIntersect(b.mBounds2d, other.mBounds2d)
      zMin == StdMax(b.mZmin, other.mZmin)
      zMax == StdMin(b.mZmax, other.mZmax)
  IN  QgsBox3D(intersect2d.mXmin, intersect2d.mYmin, zMin,
               intersect2d.mXmax, intersect2d.mYmax, zMax, TRUE)

intersect(b, other) ==
  LET intersect2d == RectIntersect(b.mBounds2d, other.mBounds2d)
      zMin == StdMax(b.mZmin, other.mZmin)
      zMax == StdMin(b.mZmax, other.mZmax)
  IN  QgsBox3D(intersect2d.mXmin, intersect2d.mYmin, zMin,
               intersect2d.mXmax, intersect2d.mYmax, zMax, DefaultNormalize)

is2d(b) ==
  \/ qgsDoubleNear(b.mZmin, b.mZmax) \/ Gt(b.mZmin, b.mZmax)
  \/ isnan(b.mZmin) \/ isnan(b.mZmax)

isNull(b) ==
  \/ /\ isnan(xMinimum(b)) /\ isnan(xMaximum(b))
     /\ isnan(yMinimum(b)) /\ isnan(xMaximum(b))
     /\ isnan(b.mZmin) /\ isnan(b.mZmax)
  \/ /\ Eq(xMinimum(b), DBL_MAX) /\ Eq(yMinimum(b), DBL_MAX)
     /\ Eq(b.mZmin, DBL_MAX)
     /\ Eq(xMaximum(b), -DBL_MAX) /\ Eq(yMaximum(b), -DBL_MAX)
     /\ Eq(b.mZmax, -DBL_MAX)

is3D(b) == ~is2d(b) /\ ~isNull(b)

\* mutant: only the receiver is asked whether it is 2D
intersectsOwn2d(b, other) ==
  IF ~RectIntersects(b.mBounds2d, other.mBounds2d) THEN FALSE
  ELSE IF is2d(b) THEN TRUE
  ELSE LET z1 == IF Gt(b.mZmin, other.mZmin) THEN b.mZmin ELSE other.mZmin
           z2 == IF Lt(b.mZmax, other.mZmax) THEN b.mZmax ELSE other.mZmax
       IN  Le(z1, z2)

intersects(b, other) ==
  IF ~RectIntersects(b.mBounds2d, other.mBounds2d) THEN FALSE
  ELSE IF is2d(other) \/ is2d(b) THEN TRUE
  ELSE LET z1 == IF Gt(b.mZmin, other.mZmin) THEN b.mZmin ELSE other.mZmin
           z2 == IF Lt(b.mZmax, other.mZmax) THEN b.mZmax ELSE other.mZmax
       IN  Le(z1, z2)

\* mutant: the z comparisons are strict
containsStrict(b, other) ==
  IF ~RectContains(b.mBounds2d, other.mBounds2d) THEN FALSE
  ELSE IF is2d(other) \/ is2d(b) THEN TRUE
  ELSE Gt(other.mZmin, b.mZmin) /\ Lt(other.mZmax, b.mZmax)

\* contains( const QgsBox3D & )
contains(b, other) ==
  IF ~RectContains(b.mBounds2d, other.mBounds2d) THEN FALSE
  ELSE IF is2d(other) \/ is2d(b) THEN TRUE
  ELSE Ge(other.mZmin, b.mZmin) /\ Le(other.mZmax, b.mZmax)

\* contains( double x, double y, double z )
containsXYZ(b, x, y, z) ==
  IF ~RectContainsXY(b.mBounds2d, x, y) THEN FALSE
  ELSE IF isnan(z) \/ is2d(b) THEN TRUE
  ELSE Le(b.mZmin, z) /\ Le(z, b.mZmax)

\* contains( const QgsPoint & )
containsPoint(b, p) ==
  IF is3D(b) THEN containsXYZ(b, p.x, p.y, p.z)
  ELSE RectContainsXY(b.mBounds2d, p.x, p.y)

\* mutant: the z maximum is taken with std::min
combineWithMinMax(b, other) ==
  Box(RectCombineExtentWith(b.mBounds2d, other.mBounds2d),
      StdMin(b.mZmin, zMinimum(other)), StdMin(b.mZmax, zMaximum(other)))

\* combineWith( const QgsBox3D & )
combineWith(b, other) ==
  Box(RectCombineExtentWith(b.mBounds2d, other.mBounds2d),
      StdMin(b.mZmin, zMinimum(other)), StdMax(b.mZmax, zMaximum(other)))

\* mutant: the z maximum is compared with mZmin
combineWithXYZFromMin(b, x, y, z) ==
  Box(RectCombineExtentWithXY(b.mBounds2d, x, y),
      StdMin(b.mZmin, z), StdMax(b.mZmin, z))

\* combineWith( double x, double y, double z )
combineWithXYZ(b, x, y, z) ==
  Box(RectCombineExtentWithXY(b.mBounds2d, x, y),
      StdMin(b.mZmin, z), StdMax(b.mZmax, z))

\* std::hypot of two or three gaps.  The model carries the radicand, the sum
\* of the squares, exactly: the double returned is its rounded square root.
\* An infinite argument gives infinity, otherwise a NaN argument gives NaN.
hypot(dx, dy, dz) ==
  IF isinf(dx) \/ isinf(dy) \/ isinf(dz) THEN [kind |-> "inf", sq |-> 0]
  ELSE IF isnan(dx) \/ isnan(dy) \/ isnan(dz) THEN [kind |-> "nan", sq |-> 0]
  ELSE [kind |-> "finite", sq |-> dx * dx + dy * dy + dz * dz]

\* mutant: the z gap is measured from the wrong bounds
distanceToSwappedZ(b, point) ==
  LET dx == StdMax(Sub(xMinimum(b), point.x),
                   StdMax(0, Sub(point.x, xMaximum(b))))
      dy == StdMax(Sub(yMinimum(b), point.y),
                   StdMax(0, Sub(point.y, yMaximum(b))))
  IN  IF is2d(b) \/ isnan(point.z) THEN hypot(dx, dy, 0)
      ELSE LET dz == StdMax(Sub(b.mZmax, point.z),
                            StdMax(0, Sub(point.z, b.mZmin)))
           IN  hypot(dx, dy, dz)

distanceTo(b, point) ==
  LET dx == StdMax(Sub(xMinimum(b), point.x),
                   StdMax(0, Sub(point.x, xMaximum(b))))
      dy == StdMax(Sub(yMinimum(b), point.y),
                   StdMax(0, Sub(point.y, yMaximum(b))))
  IN  IF is2d(b) \/ isnan(point.z) THEN hypot(dx, dy, 0)
      ELSE LET dz == StdMax(Sub(b.mZmin, point.z),
                            StdMax(0, Sub(point.z, b.mZmax)))
           IN  hypot(dx, dy, dz)

\* operator==
equals(b, other) ==
  /\ RectEquals(b.mBounds2d, other.mBounds2d)
  /\ qgsDoubleNear(b.mZmin, other.mZmin)
  /\ qgsDoubleNear(b.mZmax, other.mZmax)

\* mutant: the z offsets are taken from the wrong side of the center
scaleXYZFlippedZ(b, scaleFactor, centerX, centerY, centerZ) ==
  Box(QgsRectangle(
        Add(centerX, Mul(Sub(xMinimum(b), centerX), scaleFactor)),
        Add(centerY, Mul(Sub(yMinimum(b), centerY), scaleFactor)),
        Add(centerX, Mul(Sub(xMaximum(b), centerX), scaleFactor)),
        Add(centerY, Mul(Sub(yMaximum(b), centerY), scaleFactor))),
      Add(centerZ, Mul(Sub(centerZ, zMinimum(b)), scaleFactor)),
      Add(centerZ, Mul(Sub(centerZ, zMaximum(b)), scaleFactor)))

\* scale( double scaleFactor, double centerX, double centerY, double centerZ )
scaleXYZ(b, scaleFactor, centerX, centerY, centerZ) ==
  Box(QgsRectangle(
        Add(centerX, Mul(Sub(xMinimum(b), centerX), scaleFactor)),
        Add(centerY, Mul(Sub(yMinimum(b), centerY), scaleFactor)),
        Add(centerX, Mul(Sub(xMaximum(b), centerX), scaleFactor)),
        Add(centerY, Mul(Sub(yMaximum(b), centerY), scaleFactor))),
      Add(centerZ, Mul(Sub(zMinimum(b), centerZ), scaleFactor)),
      Add(centerZ, Mul(Sub(zMaximum(b), centerZ), scaleFactor)))

\* scale( double scaleFactor, const QgsPoint &center )
scale(b, scaleFactor, center) ==
  IF ~PointIsEmpty(center)
  THEN scaleXYZ(b, scaleFactor, center.x, center.y, center.z)
  ELSE scaleXYZ(b, scaleFactor,
                Half(Add(xMinimum(b), xMaximum(b))),
                Half(Add(yMinimum(b), yMaximum(b))),
                Half(Add(zMinimum(b), zMaximum(b))))

isEmpty(b) ==
  \/ Lt(b.mZmax, b.mZmin) \/ qgsDoubleNear(b.mZmax, b.mZmin)
  \/ RectIsEmpty(b.mBounds2d)


(***************************************************************************)
(* State: one box under operation (the receiver), the box passed as an     *)
(* argument, and what the last call was, took and returned.                *)
(***************************************************************************)
VARIABLES
  box,       \* the receiver, *this
  other,     \* the box passed as `other` / `box`
  last,      \* the name of the last call made on the receiver
  prev,      \* single calls: the receiver as it was before the call
  arg,       \* single calls: the scalar, the point and the box passed
  retBool,   \* the value returned by the last bool query
  retBox,    \* the box returned by the last intersect()
  retDist,   \* the value returned by the last distanceTo()
  pts,       \* the points passed to combineWith since the last setMinimal()
  steps      \* calls made on the receiver since its construction

vars == <<box, other, last, prev, arg, retBool, retBox, retDist, pts, steps>>

NoPoint == Point(NaN, NaN, NaN)

NoBox == Box(QgsRectangle(NaN, NaN, NaN, NaN), NaN, NaN)

Args(factor, point, b) == [factor |-> factor, point |-> point, box |-> b]

NoArgs == Args(0, NoPoint, NoBox)

NoDist == [kind |-> "nan", sq |-> 0]

(***************************************************************************)
(* Inputs of the life of one box.                                          *)
(***************************************************************************)
\* scalars handed to the setters
SetterValues == {NaN, 2}

\* points handed to the constructors and to combineWith
CornerPoints ==
  {Point(0, 0, 0), Point(4, 3, 2), Point(-1, 2, NaN), Point(2, -1, 5)}

\* boxes handed to combineWith( const QgsBox3D & )
ArgBoxes ==
  {QgsBox3D(0, 0, 0, 4, 4, 4, FALSE), QgsBox3D(3, -2, 1, 1, 6, NaN, FALSE)}

\* the three constructors, with and without normalization
ConstructedBoxes ==
  {QgsBox3D(NaN, NaN, NaN, NaN, NaN, NaN, n) : n \in BOOLEAN}
  \cup {QgsBox3D(4, 0, 3, 0, 4, 1, n) : n \in BOOLEAN}
  \cup {QgsBox3DFromPoints(p1, p2, n) :
          p1 \in CornerPoints, p2 \in CornerPoints, n \in BOOLEAN}
  \cup {QgsBox3DFromRect(QgsRectangle(0, 0, p2.x, p2.y), 5, -5, n) :
          p2 \in CornerPoints, n \in BOOLEAN}

\* the observation variables start the same way in every specification
InitObservations ==
  /\ last = "construct"
  /\ prev = box
  /\ arg = NoArgs
  /\ retBool = FALSE
  /\ retBox = box
  /\ retDist = NoDist
  /\ pts = <<>>
  /\ steps = 0

(***************************************************************************)
(* The life of one box: construction, then the mutators in any order.      *)
(***************************************************************************)
Init ==
  /\ box \in ConstructedBoxes
  /\ other = QgsBox3D(0, 0, 0, 4, 4, 4, FALSE)
  /\ InitObservations

\* a mutating call: the receiver becomes b
Mutate(b, op) ==
  /\ steps < MaxSteps
  /\ steps' = steps + 1
  /\ box' = b
  /\ last' = op
  /\ UNCHANGED <<other, prev, arg, retBool, retBox, retDist, pts>>

SetXMinimum == \E x \in SetterValues : Mutate(setXMinimum(box, x), "setXMinimum")

SetXMaximum == \E x \in SetterValues : Mutate(setXMaximum(box, x), "setXMaximum")

SetYMinimum == \E y \in SetterValues : Mutate(setYMinimum(box, y), "setYMinimum")

SetYMaximum == \E y \in SetterValues : Mutate(setYMaximum(box, y), "setYMaximum")

SetZMinimum == \E z \in SetterValues : Mutate(setZMinimum(box, z), "setZMinimum")

SetZMaximum == \E z \in SetterValues : Mutate(setZMaximum(box, z), "setZMaximum")

SetMinimal == Mutate(setMinimal(box), "setMinimal")

Normalize == Mutate(normalize(box), "normalize")

CombineWithBox == \E o \in ArgBoxes : Mutate(combineWith(box, o), "combineWith")

CombineWithXYZ == \E p \in CornerPoints :
  Mutate(combineWithXYZ(box, p.x, p.y, p.z), "combineWithXYZ")

Scale == \E f \in {2, -1}, c \in {NoPoint, Point(1, 2, 3)} :
  Mutate(scale(box, f, c), "scale")

Next ==
  \/ SetXMinimum \/ SetXMaximum \/ SetYMinimum \/ SetYMaximum
  \/ SetZMinimum \/ SetZMaximum
  \/ SetMinimal \/ Normalize \/ CombineWithBox \/ CombineWithXYZ \/ Scale

Spec == Init /\ [][Next]_vars

(***************************************************************************)
(* Single calls on one box: the receiver is drawn from boxes whose axes    *)
(* are ordered, inverted, degenerate, NaN, the setMinimal() sentinel or    *)
(* the whole finite range, and one member function is called on it.        *)
(***************************************************************************)
\* (min, max) of one axis
AxisRanges ==
  {<<0, 4>>, <<4, 0>>, <<2, 3>>, <<20, 24>>, <<NaN, NaN>>, <<NaN, 1>>,
   <<1, NaN>>, <<DBL_MAX, -DBL_MAX>>, <<-DBL_MAX, DBL_MAX>>}

SampleBoxes ==
  {QgsBox3D(x[1], y[1], z[1], x[2], y[2], z[2], FALSE) :
     x \in AxisRanges, y \in AxisRanges, z \in AxisRanges}

ScaleFactors == {0, 1, 2, -1}

ScaleCenters ==
  {NoPoint, Point(0, 0, 0), Point(1, 2, 3), Point(-DBL_MAX, DBL_MAX, 2),
   Point(1, 1, NaN), Point(3, 20, 24)}

\* the QVector3D handed to distanceTo
DistPoints ==
  {Point(x, y, z) : x \in {-3, 2, 6}, y \in {2, 6},
                    z \in {-3, 2, 6, NaN, DBL_MAX, Inf}}

InitCall ==
  /\ box \in SampleBoxes
  /\ other = QgsBox3D(0, 0, 0, 4, 4, 4, FALSE)
  /\ InitObservations

\* one call on the receiver: it becomes b, the call is recorded
Called(b, op, a) ==
  /\ steps = 0
  /\ steps' = 1
  /\ prev' = box
  /\ box' = b
  /\ last' = op
  /\ arg' = a
  /\ UNCHANGED <<other, pts>>

CallNormalize ==
  /\ Called(normalize(box), "normalize", NoArgs)
  /\ UNCHANGED <<retBool, retBox, retDist>>

CallScale == \E f \in ScaleFactors, c \in ScaleCenters :
  /\ Called(scale(box, f, c), "scale", Args(f, c, NoBox))
  /\ UNCHANGED <<retBool, retBox, retDist>>

CallIsNull ==
  /\ Called(box, "isNull", NoArgs)
  /\ retBool' = isNull(box)
  /\ UNCHANGED <<retBox, retDist>>

CallDistanceTo == \E p \in DistPoints :
  /\ Called(box, "distanceTo", Args(0, p, NoBox))
  /\ retDist' = distanceTo(box, p)
  /\ UNCHANGED <<retBool, retBox>>

NextCall == CallNormalize \/ CallScale \/ CallIsNull \/ CallDistanceTo

SpecCall == InitCall /\ [][NextCall]_vars

(***************************************************************************)
(* Single calls taking a second box.                                       *)
(***************************************************************************)
PairRangesX == {<<0, 4>>, <<2, 6>>, <<NaN, 1>>, <<5, 1>>}

PairRangesY == {<<0, 4>>, <<1, 2>>, <<3, NaN>>}

PairRangesZ ==
  {<<0, 4>>, <<2, 3>>, <<5, 7>>, <<1, 6>>, <<NaN, 2>>, <<3, NaN>>,
   <<6, 1>>, <<DBL_MAX, -DBL_MAX>>}

PairBoxes ==
  {QgsBox3D(x[1], y[1], z[1], x[2], y[2], z[2], FALSE) :
     x \in PairRangesX, y \in PairRangesY, z \in PairRangesZ}
  \cup {setMinimal(QgsBox3D(0, 0, 0, 0, 0, 0, FALSE)),
        QgsBox3D(NaN, NaN, NaN, NaN, NaN, NaN, FALSE)}

InitPair ==
  /\ box \in PairBoxes
  /\ other \in PairBoxes
  /\ InitObservations

PairIntersects ==
  /\ Called(box, "intersects", Args(0, NoPoint, other))
  /\ retBool' = intersects(box, other)
  /\ UNCHANGED <<retBox, retDist>>

PairIntersect ==
  /\ Called(box, "intersect", Args(0, NoPoint, other))
  /\ retBox' = intersect(box, other)
  /\ UNCHANGED <<retBool, retDist>>

PairContains ==
  /\ Called(box, "contains", Args(0, NoPoint, other))
  /\ retBool' = contains(box, other)
  /\ UNCHANGED <<retBox, retDist>>

PairCombineWith ==
  /\ Called(combineWith(box, other), "combineWith", Args(0, NoPoint, other))
  /\ UNCHANGED <<retBool, retBox, retDist>>

NextPair == PairIntersects \/ PairIntersect \/ PairContains \/ PairCombineWith

SpecPair == InitPair /\ [][NextPair]_vars

(***************************************************************************)
(* Accumulation: setMinimal(), then combineWith( x, y, z ) point by point. *)
(***************************************************************************)
AccPoints ==
  {Point(0, 0, 0), Point(4, 3, 2), Point(2, -1, 5), Point(-1, 2, NaN),
   Point(1, 1, Inf), Point(-DBL_MAX, DBL_MAX, 3)}

InitAcc ==
  /\ box \in ConstructedBoxes
  /\ other = QgsBox3D(0, 0, 0, 4, 4, 4, FALSE)
  /\ InitObservations

AccSetMinimal ==
  /\ box' = setMinimal(box)
  /\ last' = "setMinimal"
  /\ pts' = <<>>
  /\ steps' = 1
  /\ UNCHANGED <<other, prev, arg, retBool, retBox, retDist>>

AccCombineWith == \E p \in AccPoints :
  /\ last \in {"setMinimal", "combineWithXYZ"}
  /\ Len(pts) < MaxPts
  /\ box' = combineWithXYZ(box, p.x, p.y, p.z)
  /\ last' = "combineWithXYZ"
  /\ pts' = Append(pts, p)
  /\ UNCHANGED <<other, prev, arg, retBool, retBox, retDist, steps>>

NextAcc == AccSetMinimal \/ AccCombineWith

SpecAcc == InitAcc /\ [][NextAcc]_vars

(***************************************************************************)
(* Vocabulary of the properties: the six bounds as real numbers.           *)
(***************************************************************************)
Bounds(b) ==
  <<xMinimum(b), yMinimum(b), zMinimum(b), xMaximum(b), yMaximum(b), zMaximum(b)>>

NoNaN(b) == \A i \in 1..6 : ~isnan(Bounds(b)[i])

FiniteBox(b) == \A i \in 1..6 : Bounds(b)[i] \in Finite

FinitePoint(p) == p.x \in Finite /\ p.y \in Finite /\ p.z \in Finite

\* min <= max on every axis
Ordered(b) ==
  /\ Le(xMinimum(b), xMaximum(b))
  /\ Le(yMinimum(b), yMaximum(b))
  /\ Le(zMinimum(b), zMaximum(b))

\* every bound is NaN
AllNaN(b) == \A i \in 1..6 : isnan(Bounds(b)[i])

\* the inverted extreme: min = +DBL_MAX and max = -DBL_MAX on every axis
Sentinel(b) ==
  Bounds(b) = <<DBL_MAX, DBL_MAX, DBL_MAX, -DBL_MAX, -DBL_MAX, -DBL_MAX>>

\* m is the least (greatest) element of the set S of doubles
IsLeast(m, S) == m \in S /\ \A s \in S : Le(m, s)

IsGreatest(m, S) == m \in S /\ \A s \in S : Ge(m, s)

(***************************************************************************)
(* C1: setMinimal() then combineWith( x, y, z ) over a sequence of points. *)
(***************************************************************************)
RECURSIVE Accumulate(_, _)
Accumulate(b, seq) ==
  IF seq = <<>> THEN b
  ELSE Accumulate(combineWithXYZ(b, Head(seq).x, Head(seq).y, Head(seq).z),
                  Tail(seq))

Reordered(seq, f) == [i \in 1..Len(seq) |-> seq[f[i]]]

ExtentOfPoints ==
  LET n == Len(pts)
      XS == {pts[i].x : i \in 1..n}
      YS == {pts[i].y : i \in 1..n}
      ZS == {pts[i].z : i \in 1..n}
  IN  /\ IsLeast(xMinimum(box), XS) /\ IsGreatest(xMaximum(box), XS)
      /\ IsLeast(yMinimum(box), YS) /\ IsGreatest(yMaximum(box), YS)
      /\ IsLeast(zMinimum(box), ZS) /\ IsGreatest(zMaximum(box), ZS)
      /\ \A f \in Permutations(1..n) :
           Accumulate(setMinimal(box), Reordered(pts, f)) = box

\* C1 as stated: after setMinimal() and one combineWith(x,y,z) per point of
\* any non-empty sequence of points, the bounds are the per-axis minimum and
\* maximum of the coordinates, and every permutation gives the same bounds.
C1_AnyPoints == (last = "combineWithXYZ") => ExtentOfPoints

\* C1 amended: the same for sequences of points whose coordinates are all
\* finite (neither NaN nor infinite).
C1_FinitePoints ==
  (last = "combineWithXYZ" /\ \A i \in 1..Len(pts) : FinitePoint(pts[i]))
    => ExtentOfPoints

\* three distinct finite points were accumulated, the last not the extreme
C1_Witness ==
  /\ last = "combineWithXYZ"
  /\ Len(pts) = 3
  /\ Cardinality({pts[i] : i \in 1..3}) = 3
  /\ \A i \in 1..3 : FinitePoint(pts[i])
  /\ Lt(zMinimum(box), pts[3].z) /\ Lt(pts[3].z, zMaximum(box))

(***************************************************************************)
(* C2: normalize().                                                        *)
(***************************************************************************)
SamePair(a1, a2, b1, b2) == <<b1, b2>> \in {<<a1, a2>>, <<a2, a1>>}

NormalizeOrders ==
  /\ Ordered(box)
  /\ SamePair(xMinimum(prev), xMaximum(prev), xMinimum(box), xMaximum(box))
  /\ SamePair(yMinimum(prev), yMaximum(prev), yMinimum(box), yMaximum(box))
  /\ SamePair(zMinimum(prev), zMaximum(prev), zMinimum(box), zMaximum(box))
  /\ normalize(box) = box

\* C2 as stated: for every box, after normalize() min <= max on every axis,
\* each axis keeps its pair of values, and a second normalize() changes nothing.
C2_EveryBox == (last = "normalize") => NormalizeOrders

\* C2 amended: the same for every box none of whose bounds is NaN.
C2_NoNaN == (last = "normalize" /\ NoNaN(prev)) => NormalizeOrders

\* a box inverted on z and on x (not on y) was normalized
C2_Witness ==
  /\ last = "normalize"
  /\ NoNaN(prev)
  /\ Gt(zMinimum(prev), zMaximum(prev))
  /\ Gt(xMinimum(prev), xMaximum(prev))
  /\ Lt(yMinimum(prev), yMaximum(prev))
  /\ box # prev

(***************************************************************************)
(* C3: symmetry of intersects() and intersect().                           *)
(***************************************************************************)
Symmetric ==
  /\ (last = "intersects") => (retBool = intersects(other, box))
  /\ (last = "intersect") => (Bounds(retBox) = Bounds(intersect(other, box)))

\* C3 as stated: for all boxes A and B, A.intersects(B) = B.intersects(A)
\* and the six bounds of A.intersect(B) are those of B.intersect(A).
C3_AllBoxes == Symmetric

\* C3 amended: the same for all boxes A and B none of whose bounds is NaN.
C3_NoNaN == (NoNaN(box) /\ NoNaN(other)) => Symmetric

\* two different 3D boxes that overlap were intersected
C3_Witness ==
  /\ last = "intersect"
  /\ NoNaN(box) /\ NoNaN(other) /\ box # other
  /\ is3D(box) /\ is3D(other)
  /\ intersects(box, other)
  /\ retBox # box /\ retBox # other

(***************************************************************************)
(* C4: a box contains itself.                                              *)
(***************************************************************************)
\* C4: for every box A that is not null, not empty and normalized,
\* A.contains(A) returns true.
C4_ContainsSelf ==
  (last = "contains" /\ other = box
     /\ ~isNull(box) /\ ~isEmpty(box) /\ Ordered(box)) => retBool

C4_Witness ==
  /\ last = "contains" /\ other = box
  /\ ~isNull(box) /\ ~isEmpty(box) /\ Ordered(box)
  /\ is3D(box)

(***************************************************************************)
(* C5: scale() by 1.0 and by 0.0.                                          *)
(***************************************************************************)
Collapsed(b, c) == Bounds(b) = <<c.x, c.y, c.z, c.x, c.y, c.z>>

\* C5 as stated: for every box and every center, scale(1.0, center) leaves
\* the six bounds unchanged and scale(0.0, center) sets both bounds of each
\* axis to the coordinate of center.
C5_EveryBoxAndCenter ==
  (last = "scale") =>
     /\ (arg.factor = 1) => (box = prev)
     /\ (arg.factor = 0) => Collapsed(box, arg.point)

\* the centre coordinate of each of the six bounds
CenterOf(c) == <<c.x, c.y, c.z, c.x, c.y, c.z>>

\* bound - center is a double: the subtraction does not round
DifferencesExact(b, c) ==
  \A i \in 1..6 : (Bounds(b)[i] - CenterOf(c)[i]) \in Finite

\* bound - center does not overflow to infinity
DifferencesFinite(b, c) ==
  \A i \in 1..6 :
     2 * Abs(Bounds(b)[i] - CenterOf(c)[i]) < 2 * DBL_MAX + Pow2(EMax)

\* C5 amended: for every box with finite bounds and every center with finite
\* coordinates, scale(1.0, center) leaves the six bounds unchanged when each
\* difference bound - center is exactly representable as a double, and
\* scale(0.0, center) sets both bounds of each axis to the coordinate of
\* center when no difference bound - center overflows.
C5_FiniteExact ==
  (last = "scale" /\ FiniteBox(prev) /\ FinitePoint(arg.point)) =>
     /\ (arg.factor = 1 /\ DifferencesExact(prev, arg.point)) => (box = prev)
     /\ (arg.factor = 0 /\ DifferencesFinite(prev, arg.point))
          => Collapsed(box, arg.point)

\* a box was collapsed onto a center that is none of its bounds
C5_Witness ==
  /\ last = "scale" /\ arg.factor = 0
  /\ FiniteBox(prev) /\ FinitePoint(arg.point)
  /\ DifferencesFinite(prev, arg.point)
  /\ ~DifferencesExact(prev, arg.point)
  /\ \A i \in 1..6 : Bounds(prev)[i] # CenterOf(arg.point)[i]
  /\ Collapsed(box, arg.point)

(***************************************************************************)
(* C6: distanceTo().                                                       *)
(***************************************************************************)
\* the gap from coordinate c to the closed range [lo, hi], as a real number
Gap(lo, hi, c) == IF c < lo THEN lo - c ELSE IF c > hi THEN c - hi ELSE 0

\* the gap as a double
GapDouble(lo, hi, c) == RoundRat(Gap(lo, hi, c), 1)

Within(lo, hi, c) == lo <= c /\ c <= hi

C7_MinimalIsNull == (last = "setMinimal") => (isNull(box) /\ Sentinel(box))

\* setMinimal() was called on a box that had been mutated before
C7_Witness == last = "setMinimal" /\ steps = 2 /\ isNull(box)

(***************************************************************************)
(* C8: isNull().                                                           *)
(***************************************************************************)
\* C8: isNull() returns true if and only if every one of the six bounds is
\* NaN, or every minimum is +DBL_MAX and every maximum is -DBL_MAX; a box
\* with five NaN bounds and a non-NaN ymax is not null.
C8_NullIffAllNaNOrSentinel ==
  (last = "isNull") => (retBool <=> (AllNaN(box) \/ Sentinel(box)))

(***************************************************************************)
(* C9: intersect() does not reorder its result.                            *)
(***************************************************************************)
\* r is a maximum (minimum) of a and b under the comparison of doubles
IsMaxOf(r, a, b) == r \in {a, b} /\ ~Lt(r, a) /\ ~Lt(r, b)

IsMinOf(r, a, b) == r \in {a, b} /\ ~Gt(r, a) /\ ~Gt(r, b)

ZDisjoint(a, b) == Lt(a.mZmax, b.mZmin) \/ Lt(b.mZmax, a.mZmin)

Least(a, b) == IF a < b THEN a ELSE b

Greatest(a, b) == IF a > b THEN a ELSE b

\* C10: for normalized, non-null boxes A and B with non-NaN bounds, after
\* A.combineWith(B) every minimum is the smaller of the two minima and every
\* maximum the larger of the two maxima, the result contains the old A and
\* B, and B is left unchanged.
C10_CombineCovers ==
  (last = "combineWith" /\ Ordered(prev) /\ Ordered(arg.box)
     /\ NoNaN(prev) /\ NoNaN(arg.box)
     /\ ~isNull(prev) /\ ~isNull(arg.box)) =>
     /\ \A i \in 1..3 :
          /\ Bounds(box)[i] = Least(Bounds(prev)[i], Bounds(arg.box)[i])
          /\ Bounds(box)[i + 3]
               = Greatest(Bounds(prev)[i + 3], Bounds(arg.box)[i + 3])
     /\ contains(box, prev)
     /\ contains(box, arg.box)
     /\ other = arg.box

\* the union is neither of the two boxes
C10_Witness ==
  /\ last = "combineWith" /\ Ordered(prev) /\ Ordered(other)
  /\ ~isNull(prev) /\ ~isNull(other)
  /\ is3D(prev) /\ is3D(other)
  /\ box # prev /\ box # other

=============================================================================
